---- MODULE Spec2Model ----
(***************************************************************************)
(* Model of the FractalRegistry access-grant contract                      *)
(* (near-rs/contract/src/lib.rs): the primary store grants_by_id, the      *)
(* three secondary indices, insert_grant, delete_grant, find_grants and    *)
(* grants_for.  Every call runs to completion; a call that panics          *)
(* (require! or unwrap) has all its storage writes discarded by the host.  *)
(***************************************************************************)
EXTENDS FiniteSets, Integers, Sequences, TLC

\* ---------------------------------------------------------------- bounds
\* Largest number of grants held in the primary store at once.
MaxGrants == 2
\* Largest value of env::block_timestamp() explored.
MaxTime == 2

\* ---------------------------------------------------------------- inputs
\* Callers (env::predecessor_account_id()), as account-id strings.
AccountIds == {"al", "bo"}
\* Grantee public keys in their canonical string form ("curve:base58").
PublicKeys == {"e:P", "e:Q"}
\* data_id strings; one of them ends in a decimal digit.
DataIds == {"A", "A1"}
\* locked_until values a caller passes (EpochHeight = u64).
LockValues == {0, 1, 10}

\* Option<T>: None is the empty set, Some(x) is {x}.
None == {}
Some(x) == {x}
Option(S) == {None} \cup {Some(x) : x \in S}
is_some(o) == o # {}
unwrap(o) == CHOOSE x \in o : TRUE
unwrap_or(o, d) == IF o = {} THEN d ELSE CHOOSE x \in o : TRUE

\* ---------------------------------------------------------------- state
VARIABLES
    grants_by_id,          \* LookupMap<String, Grant>
    grant_ids_by_owner,    \* LookupMap<AccountId, Vec<String>>
    grant_ids_by_grantee,  \* LookupMap<PublicKey, Vec<String>>
    grant_ids_by_data_id,  \* LookupMap<String, Vec<String>>
    block_timestamp,       \* env::block_timestamp() of the next call
    last                   \* the call just executed (arguments and outcome),
                           \* until the host hands the outcome to the caller

vars == <<grants_by_id, grant_ids_by_owner, grant_ids_by_grantee,
          grant_ids_by_data_id, block_timestamp, last>>

\* struct Grant
Grant(owner, grantee, data_id, locked_until) ==
    [owner |-> owner, grantee |-> grantee, data_id |-> data_id,
     locked_until |-> locked_until]

\* struct FractalRegistry as a value (the contract's storage during a call)
Registry(g, o, e, d) ==
    [grants_by_id |-> g, grant_ids_by_owner |-> o,
     grant_ids_by_grantee |-> e, grant_ids_by_data_id |-> d]

self == Registry(grants_by_id, grant_ids_by_owner, grant_ids_by_grantee,
                 grant_ids_by_data_id)

\* impl Default for FractalRegistry: four empty maps
EmptyMap == [k \in {} |-> <<>>]
Default == Registry(EmptyMap, EmptyMap, EmptyMap, EmptyMap)

\* ---------------------------------------------------------------- helpers
Digit(d) == <<"0", "1", "2", "3", "4", "5", "6", "7", "8", "9">>[d + 1]

\* Display for u64: decimal digits, no leading zeros, "0" for zero.
RECURSIVE ToDecimal(_)
ToDecimal(n) == IF n < 10 THEN Digit(n)
                ELSE ToDecimal(n \div 10) \o Digit(n % 10)

\* hex::encode(env::keccak256(bytes)): collision-resistant, so distinct
\* inputs give distinct digests and equal inputs the same digest.
Keccak256Hex(bytes) == "keccak(" \o bytes \o ")"

derive_grant_id(grant) ==
    Keccak256Hex(grant.owner \o grant.grantee \o grant.data_id
                 \o ToDecimal(grant.locked_until))

\* LookupMap::get(key).unwrap_or_default() for a Vec value
GetOrDefault(collection, key) ==
    IF key \in DOMAIN collection THEN collection[key] ELSE <<>>

\* LookupMap::insert(key, value)
MapInsert(collection, key, value) ==
    [k \in DOMAIN collection \cup {key} |->
        IF k = key THEN value ELSE collection[k]]

\* LookupMap::remove that leaves the entry in place.
MapRemove_kept(collection, key) == collection

\* LookupMap::remove(key)
MapRemove(collection, key) ==
    [k \in DOMAIN collection \ {key} |-> collection[k]]

\* get_push_insert that stores a fresh one-element list instead of appending.
get_push_insert_overwrite(collection, key, value) ==
    MapInsert(collection, key, <<value>>)

\* get_push_insert that puts the value at the front of the list.
get_push_insert_front(collection, key, value) ==
    MapInsert(collection, key, <<value>> \o GetOrDefault(collection, key))

\* get_push_insert that pushes the value twice.
get_push_insert_twice(collection, key, value) ==
    MapInsert(collection, key,
              Append(Append(GetOrDefault(collection, key), value), value))

get_push_insert(collection, key, value) ==
    MapInsert(collection, key, Append(GetOrDefault(collection, key), value))

\* Vec::retain(|id| *id != *value)
Retain(vec, value) == SelectSeq(vec, LAMBDA id : id # value)

\* Vec::contains
Contains(vec, x) == \E i \in 1..Len(vec) : vec[i] = x

\* remove_values that does not store the shortened list back.
remove_values_not_stored(collection, key, value) ==
    IF key \in DOMAIN collection
    THEN [ok |-> TRUE, map |-> collection]
    ELSE [ok |-> FALSE, map |-> collection]

\* remove_values that removes the whole entry of the key from the index.
remove_values_drop_key(collection, key, value) ==
    IF key \in DOMAIN collection
    THEN [ok |-> TRUE, map |-> MapRemove(collection, key)]
    ELSE [ok |-> FALSE, map |-> collection]

\* remove_values; .get(key).unwrap() panics when the key is missing, which
\* the caller sees as a record without a map (ok = FALSE).
remove_values(collection, key, value) ==
    IF key \in DOMAIN collection
    THEN [ok |-> TRUE,
          map |-> MapInsert(collection, key, Retain(collection[key], value))]
    ELSE [ok |-> FALSE, map |-> collection]

\* ---------------------------------------------------------------- panics
Ok == "ok"
ErrDuplicate == "Grant already exists"
ErrTimelocked == "Grant is timelocked"
ErrInvalidQuery == "Required argument: owner and/or grantee"
ErrUnwrap == "called Option::unwrap() on a None value"

\* ---------------------------------------------------------------- find_grants
\* The lists pushed for the supplied criteria, in the order owner, grantee,
\* data_id.
grant_id_searches(reg, owner, grantee, data_id) ==
    (IF is_some(owner)
        THEN <<GetOrDefault(reg.grant_ids_by_owner, unwrap(owner))>>
        ELSE <<>>)
    \o (IF is_some(grantee)
        THEN <<GetOrDefault(reg.grant_ids_by_grantee, unwrap(grantee))>>
        ELSE <<>>)
    \o (IF is_some(data_id)
        THEN <<GetOrDefault(reg.grant_ids_by_data_id, unwrap(data_id))>>
        ELSE <<>>)

\* The argument check satisfied by any one of the three criteria.
find_grants_require_any(owner, grantee, data_id) ==
    is_some(owner) \/ is_some(grantee) \/ is_some(data_id)

\* require!(owner.is_some() || grantee.is_some(), ...)
find_grants_require(owner, grantee, data_id) ==
    is_some(owner) \/ is_some(grantee)

\* The intersection with any() in place of all().
intersect_any(searches) ==
    LET head == Head(searches)
        tail == Tail(searches)
    IN  SelectSeq(head,
                  LAMBDA id : \E i \in 1..Len(tail) : Contains(tail[i], id))

\* The intersection that walks the first list from its end.
intersect_rev(searches) ==
    LET head == Head(searches)
        tail == Tail(searches)
        kept == SelectSeq(head,
                  LAMBDA id : \A i \in 1..Len(tail) : Contains(tail[i], id))
    IN  [i \in 1..Len(kept) |-> kept[Len(kept) + 1 - i]]

\* head.iter().filter(|id| tail.iter().all(|s| s.contains(id)))
intersect(searches) ==
    LET head == Head(searches)
        tail == Tail(searches)
    IN  SelectSeq(head,
                  LAMBDA id : \A i \in 1..Len(tail) : Contains(tail[i], id))

find_grants(reg, owner, grantee, data_id) ==
    IF ~find_grants_require(owner, grantee, data_id)
    THEN [result |-> ErrInvalidQuery, ret |-> <<>>]
    ELSE LET searches == grant_id_searches(reg, owner, grantee, data_id)
         IN  IF searches = <<>>
             THEN [result |-> Ok, ret |-> <<>>]
             ELSE LET ids == intersect(searches)
                  IN  IF \E i \in 1..Len(ids) :
                            ids[i] \notin DOMAIN reg.grants_by_id
                      THEN [result |-> ErrUnwrap, ret |-> <<>>]
                      ELSE [result |-> Ok,
                            ret |-> [i \in 1..Len(ids) |->
                                        reg.grants_by_id[ids[i]]]]

grants_for(reg, grantee, data_id) ==
    find_grants(reg, None, Some(grantee), Some(data_id))

\* ---------------------------------------------------------------- events
\* The log line that always carries the event name of insert_grant.
Event_inserted(name, owner, grantee, data_id, locked_until) ==
    [standard |-> "FractalRegistry", version |-> "0",
     event |-> "grant_inserted",
     data |-> [owner |-> owner, grantee |-> grantee, data_id |-> data_id,
               locked_until |-> unwrap_or(locked_until, 0)]]

\* The EVENT_JSON log line, as the JSON value it carries.
Event(name, owner, grantee, data_id, locked_until) ==
    [standard |-> "FractalRegistry", version |-> "0", event |-> name,
     data |-> [owner |-> owner, grantee |-> grantee, data_id |-> data_id,
               locked_until |-> unwrap_or(locked_until, 0)]]

\* ---------------------------------------------------------------- insert_grant
\* The outcome of a call: its result, the storage it leaves behind at the
\* point it returned or panicked, and the log lines it produced.
\* insert_grant without the duplicate check.
insert_grant_require_none(reg, grant_id) == TRUE

\* require!(!self.grants_by_id.contains_key(&grant_id), ...)
insert_grant_require(reg, grant_id) == grant_id \notin DOMAIN reg.grants_by_id

insert_grant(reg, predecessor, grantee, data_id, locked_until) ==
    LET owner == predecessor
        grant == Grant(owner, grantee, data_id, unwrap_or(locked_until, 0))
        grant_id == derive_grant_id(grant)
    IN  IF ~insert_grant_require(reg, grant_id)
        THEN [result |-> ErrDuplicate, reg |-> reg, logs |-> <<>>]
        ELSE [result |-> Ok,
              reg |-> Registry(
                  MapInsert(reg.grants_by_id, grant_id, grant),
                  get_push_insert(reg.grant_ids_by_owner, owner, grant_id),
                  get_push_insert(reg.grant_ids_by_grantee, grantee, grant_id),
                  get_push_insert(reg.grant_ids_by_data_id, data_id, grant_id)),
              logs |-> <<Event("grant_inserted", owner, grantee, data_id,
                               locked_until)>>]

\* ---------------------------------------------------------------- delete_grant
\* The candidate filter that ignores the locked_until argument.
lock_filter_all(grant, locked_until) == TRUE

\* The candidate filter that compares with the resolved argument, so that
\* None and Some(0) select the grants with locked_until 0 only.
lock_filter_exact(grant, locked_until) ==
    grant.locked_until = unwrap_or(locked_until, 0)

\* The candidate filter that takes a nonzero argument as a lower limit.
lock_filter_ge(grant, locked_until) ==
    IF locked_until = None THEN TRUE
    ELSE IF unwrap(locked_until) = 0 THEN TRUE
    ELSE grant.locked_until >= unwrap(locked_until)

\* .filter(|grant| match locked_until { None | Some(0) => true,
\*                                      Some(l) => grant.locked_until == l })
lock_filter(grant, locked_until) ==
    IF locked_until = None THEN TRUE
    ELSE IF unwrap(locked_until) = 0 THEN TRUE
    ELSE grant.locked_until = unwrap(locked_until)

\* The time-lock check with <= in place of <.
timelock_require_le(grant, now) == grant.locked_until <= now

\* The time-lock check with the comparison turned around.
timelock_require_gt(grant, now) == grant.locked_until > now

\* require!(grant.locked_until < env::block_timestamp(), ...)
timelock_require(grant, now) == grant.locked_until < now

\* The body of the for_each closure after the require!: remove the primary
\* entry, then the identifier from the three index lists under the
\* owner, grantee and data_id.
remove_grant(reg, owner, grantee, data_id, grant) ==
    LET grant_id == derive_grant_id(grant)
        g == MapRemove(reg.grants_by_id, grant_id)
        o == remove_values(reg.grant_ids_by_owner, owner, grant_id)
        e == remove_values(reg.grant_ids_by_grantee, grantee, grant_id)
        d == remove_values(reg.grant_ids_by_data_id, data_id, grant_id)
    IN  IF ~o.ok
        THEN [result |-> ErrUnwrap,
              reg |-> Registry(g, reg.grant_ids_by_owner,
                               reg.grant_ids_by_grantee,
                               reg.grant_ids_by_data_id)]
        ELSE IF ~e.ok
        THEN [result |-> ErrUnwrap,
              reg |-> Registry(g, o.map, reg.grant_ids_by_grantee,
                               reg.grant_ids_by_data_id)]
        ELSE IF ~d.ok
        THEN [result |-> ErrUnwrap,
              reg |-> Registry(g, o.map, e.map, reg.grant_ids_by_data_id)]
        ELSE [result |-> Ok, reg |-> Registry(g, o.map, e.map, d.map)]

\* for_each that skips a time-locked candidate instead of panicking.
RECURSIVE for_each_skip_locked(_, _, _, _, _, _, _)
for_each_skip_locked(reg, candidates, i, owner, grantee, data_id, now) ==
    IF i > Len(candidates)
    THEN [result |-> Ok, reg |-> reg]
    ELSE IF ~timelock_require(candidates[i], now)
    THEN for_each_skip_locked(reg, candidates, i + 1, owner, grantee,
                              data_id, now)
    ELSE LET step == remove_grant(reg, owner, grantee, data_id, candidates[i])
         IN  IF step.result # Ok
             THEN step
             ELSE for_each_skip_locked(step.reg, candidates, i + 1, owner,
                                       grantee, data_id, now)

\* .for_each(|grant| { ... }) over the filtered candidates, from the i-th on;
\* a panic stops the iteration.
RECURSIVE for_each(_, _, _, _, _, _, _)
for_each(reg, candidates, i, owner, grantee, data_id, now) ==
    IF i > Len(candidates)
    THEN [result |-> Ok, reg |-> reg]
    ELSE IF ~timelock_require(candidates[i], now)
    THEN [result |-> ErrTimelocked, reg |-> reg]
    ELSE LET step == remove_grant(reg, owner, grantee, data_id, candidates[i])
         IN  IF step.result # Ok
             THEN step
             ELSE for_each(step.reg, candidates, i + 1, owner, grantee,
                           data_id, now)

\* The candidate search of delete_grant without the owner criterion.
delete_grant_find_any_owner(reg, owner, grantee, data_id) ==
    find_grants(reg, None, Some(grantee), Some(data_id))

\* self.find_grants(Some(owner.clone()), Some(grantee.clone()),
\*                  Some(data_id.clone()))
delete_grant_find(reg, owner, grantee, data_id) ==
    find_grants(reg, Some(owner), Some(grantee), Some(data_id))

delete_grant(reg, predecessor, grantee, data_id, locked_until, now) ==
    LET owner == predecessor
        found == delete_grant_find(reg, owner, grantee, data_id)
    IN  IF found.result # Ok
        THEN [result |-> found.result, reg |-> reg, logs |-> <<>>]
        ELSE LET candidates ==
                     SelectSeq(found.ret,
                               LAMBDA grant : lock_filter(grant, locked_until))
                 done == for_each(reg, candidates, 1, owner, grantee, data_id,
                                  now)
             IN  IF done.result # Ok
                 THEN [result |-> done.result, reg |-> done.reg,
                       logs |-> <<>>]
                 ELSE [result |-> Ok, reg |-> done.reg,
                       logs |-> <<Event("grant_deleted", owner, grantee,
                                        data_id, locked_until)>>]

\* ---------------------------------------------------------------- host
\* A call that returns commits its storage writes and log lines; a call that
\* panics is reverted by the host: storage as before the call, no logs.
Commit(pre, outcome) ==
    IF outcome.result = Ok
    THEN [reg |-> outcome.reg, logs |-> outcome.logs]
    ELSE [reg |-> pre, logs |-> <<>>]

\* A finished call: its arguments, the storage it started from and its
\* outcome (result, returned value, committed log lines).
Call(op, caller, owner, grantee, data_id, locked_until, pre, result, ret, logs) ==
    [op |-> op, caller |-> caller, owner |-> owner, grantee |-> grantee,
     data_id |-> data_id, locked_until |-> locked_until, pre |-> pre,
     result |-> result, ret |-> ret, logs |-> logs]

\* No call outstanding: the host is ready to run the next one.
Idle == Call("idle", None, None, None, None, None, Default, Ok, <<>>, <<>>)

Store(reg) ==
    /\ grants_by_id' = reg.grants_by_id
    /\ grant_ids_by_owner' = reg.grant_ids_by_owner
    /\ grant_ids_by_grantee' = reg.grant_ids_by_grantee
    /\ grant_ids_by_data_id' = reg.grant_ids_by_data_id

\* ---------------------------------------------------------------- actions
Init ==
    /\ grants_by_id = Default.grants_by_id
    /\ grant_ids_by_owner = Default.grant_ids_by_owner
    /\ grant_ids_by_grantee = Default.grant_ids_by_grantee
    /\ grant_ids_by_data_id = Default.grant_ids_by_data_id
    /\ block_timestamp = 0
    /\ last = Idle

InsertGrant ==
    /\ last = Idle
    /\ \E caller \in AccountIds, grantee \in PublicKeys, data_id \in DataIds,
          locked_until \in Option(LockValues) :
           LET outcome == insert_grant(self, caller, grantee, data_id,
                                       locked_until)
               after == Commit(self, outcome)
           IN  /\ Cardinality(DOMAIN after.reg.grants_by_id) <= MaxGrants
               /\ Store(after.reg)
               /\ last' = Call("insert_grant", Some(caller), None, Some(grantee),
                               Some(data_id), locked_until, self, outcome.result,
                               <<>>, after.logs)
               /\ UNCHANGED block_timestamp

DeleteGrant ==
    /\ last = Idle
    /\ \E caller \in AccountIds, grantee \in PublicKeys, data_id \in DataIds,
          locked_until \in Option(LockValues) :
           LET outcome == delete_grant(self, caller, grantee, data_id,
                                       locked_until, block_timestamp)
               after == Commit(self, outcome)
           IN  /\ Store(after.reg)
               /\ last' = Call("delete_grant", Some(caller), None, Some(grantee),
                               Some(data_id), locked_until, self, outcome.result,
                               <<>>, after.logs)
               /\ UNCHANGED block_timestamp

FindGrants ==
    /\ last = Idle
    /\ \E owner \in Option(AccountIds), grantee \in Option(PublicKeys),
          data_id \in Option(DataIds) :
           LET outcome == find_grants(self, owner, grantee, data_id)
           IN  /\ last' = Call("find_grants", None, owner, grantee, data_id,
                               None, self, outcome.result, outcome.ret, <<>>)
               /\ UNCHANGED <<grants_by_id, grant_ids_by_owner,
                              grant_ids_by_grantee, grant_ids_by_data_id,
                              block_timestamp>>

GrantsFor ==
    /\ last = Idle
    /\ \E grantee \in PublicKeys, data_id \in DataIds :
           LET outcome == grants_for(self, grantee, data_id)
           IN  /\ last' = Call("grants_for", None, None, Some(grantee),
                               Some(data_id), None, self, outcome.result,
                               outcome.ret, <<>>)
               /\ UNCHANGED <<grants_by_id, grant_ids_by_owner,
                              grant_ids_by_grantee, grant_ids_by_data_id,
                              block_timestamp>>

\* Time passes between calls.
Tick ==
    /\ last = Idle
    /\ block_timestamp < MaxTime
    /\ block_timestamp' = block_timestamp + 1
    /\ UNCHANGED <<grants_by_id, grant_ids_by_owner, grant_ids_by_grantee,
                   grant_ids_by_data_id, last>>

\* The host runs one call to completion before it starts the next: the
\* outcome of the finished call goes back to its caller.
Return ==
    /\ last # Idle
    /\ last' = Idle
    /\ UNCHANGED <<grants_by_id, grant_ids_by_owner, grant_ids_by_grantee,
                   grant_ids_by_data_id, block_timestamp>>

Next ==
    InsertGrant \/ DeleteGrant \/ FindGrants \/ GrantsFor \/ Tick \/ Return

Spec == Init /\ [][Next]_vars

\* The calls that write the storage, and the clock: find_grants and
\* grants_for are views and reach no storage of their own.
NextStore == InsertGrant \/ DeleteGrant \/ Tick \/ Return

SpecStore == Init /\ [][NextStore]_vars

\* ---------------------------------------------------------------- properties
\* The grant records held in the primary store of reg.
StoredGrants(reg) == {reg.grants_by_id[id] : id \in DOMAIN reg.grants_by_id}

\* id is in the list that the index map keeps under key.
InList(map, key, id) == key \in DOMAIN map /\ Contains(map[key], id)

\* id is listed under the three keys of grant.
Indexed(reg, id, grant) ==
    /\ InList(reg.grant_ids_by_owner, grant.owner, id)
    /\ InList(reg.grant_ids_by_grantee, grant.grantee, id)
    /\ InList(reg.grant_ids_by_data_id, grant.data_id, id)

\* id is listed under no key of map other than key.
OnlyUnder(map, key, id) ==
    \A k \in DOMAIN map : k # key => ~Contains(map[k], id)

\* The identifiers that a call removed from the primary store.
Removed == DOMAIN last.pre.grants_by_id \ DOMAIN grants_by_id

\* The arguments of the finished insert_grant or delete_grant call.
ArgCaller == unwrap(last.caller)
ArgGrantee == unwrap(last.grantee)
ArgDataId == unwrap(last.data_id)

\* The stored grants of reg that belong to owner, grantee and data_id.
GrantsOf(reg, owner, grantee, data_id) ==
    {grant \in StoredGrants(reg) :
        /\ grant.owner = owner
        /\ grant.grantee = grantee
        /\ grant.data_id = data_id}

\* The filtered candidate set of a delete_grant call.
CandidateSet(reg, owner, grantee, data_id, locked_until) ==
    {grant \in GrantsOf(reg, owner, grantee, data_id) :
        \/ locked_until = None
        \/ locked_until = Some(0)
        \/ locked_until = Some(grant.locked_until)}

\* C1: index consistency.  Every identifier of the primary store is in the
\* by-owner list under its grant's owner, in the by-grantee list under its
\* grantee and in the by-data_id list under its data_id, and in no list
\* under any other key; this holds after every call, successful or failed.
C1_IndexConsistency ==
    \A id \in DOMAIN grants_by_id :
        LET grant == grants_by_id[id]
        IN  /\ Indexed(self, id, grant)
            /\ OnlyUnder(grant_ids_by_owner, grant.owner, id)
            /\ OnlyUnder(grant_ids_by_grantee, grant.grantee, id)
            /\ OnlyUnder(grant_ids_by_data_id, grant.data_id, id)

\* A delete_grant removed one grant of an owner who keeps another, and
\* a second owner holds a grant too.
C1_Witness ==
    /\ last.op = "delete_grant"
    /\ last.result = Ok
    /\ Removed # {}
    /\ Cardinality(DOMAIN grants_by_id) = 1
    /\ Cardinality(DOMAIN grant_ids_by_owner) = 2

\* C2: time-lock safety.  Every grant that a call removes is removed by a
\* delete_grant call and has locked_until strictly less than the time of
\* that call; a lock equal to the current time blocks the deletion.
C2_TimeLockSafety ==
    \A id \in Removed :
        /\ last.op = "delete_grant"
        /\ last.pre.grants_by_id[id].locked_until < block_timestamp

\* A delete_grant removed a grant locked until 1 at time 2.
C2_Witness ==
    /\ last.op = "delete_grant"
    /\ last.result = Ok
    /\ block_timestamp = 2
    /\ \E id \in Removed : last.pre.grants_by_id[id].locked_until = 1

\* C3: delete is all-or-nothing.  When the filtered candidate set of a
\* delete_grant call holds a grant that fails the time-lock check, the call
\* fails with Timelocked and the primary store and the three indices are as
\* before the call.
C3_DeleteAllOrNothing ==
    (/\ last.op = "delete_grant"
     /\ \E grant \in CandidateSet(last.pre, ArgCaller, ArgGrantee, ArgDataId,
                                  last.locked_until) :
            grant.locked_until >= block_timestamp)
    => (last.result = ErrTimelocked /\ self = last.pre)

\* A delete_grant failed on its second candidate after its first candidate
\* had passed the time-lock check.
C3_Witness ==
    /\ last.op = "delete_grant"
    /\ last.result = ErrTimelocked
    /\ LET found == delete_grant_find(last.pre, ArgCaller, ArgGrantee,
                                      ArgDataId).ret
       IN  /\ Len(found) = 2
           /\ found[1].locked_until < block_timestamp
           /\ found[2].locked_until >= block_timestamp
    /\ last.locked_until = None
    /\ self = last.pre

\* C4: only the owner deletes.  A delete_grant call by caller c for
\* (grantee g, data_id d) leaves every grant that differs from (c, g, d) in
\* owner, grantee or data_id in the primary store and in its three lists.
C4_OnlyOwnerDeletes ==
    last.op = "delete_grant" =>
        \A id \in DOMAIN last.pre.grants_by_id :
            LET grant == last.pre.grants_by_id[id]
            IN  (\/ grant.owner # ArgCaller
                 \/ grant.grantee # ArgGrantee
                 \/ grant.data_id # ArgDataId)
                => /\ id \in DOMAIN grants_by_id
                   /\ grants_by_id[id] = grant
                   /\ Indexed(self, id, grant)

\* A delete_grant removed the caller's grant while another owner's grant
\* for the same grantee and data_id stayed.
C4_Witness ==
    /\ last.op = "delete_grant"
    /\ last.result = Ok
    /\ Removed # {}
    /\ \E grant \in StoredGrants(self) :
        /\ grant.owner # ArgCaller
        /\ grant.grantee = ArgGrantee
        /\ grant.data_id = ArgDataId

\* C5: insert rejects duplicates.  An insert_grant call whose (caller,
\* grantee, data_id, resolved locked_until) tuple is stored already fails
\* with "Grant already exists" and leaves the primary store and the three
\* indices unchanged.
C5_InsertRejectsDuplicate ==
    (/\ last.op = "insert_grant"
     /\ Grant(ArgCaller, ArgGrantee, ArgDataId, unwrap_or(last.locked_until, 0))
            \in StoredGrants(last.pre))
    => (last.result = ErrDuplicate /\ self = last.pre)

\* An insert_grant with locked_until omitted was rejected because the same
\* tuple with locked_until 0 was stored.
C5_Witness ==
    /\ last.op = "insert_grant"
    /\ last.result = ErrDuplicate
    /\ last.locked_until = None
    /\ Grant(ArgCaller, ArgGrantee, ArgDataId, 0) \in StoredGrants(last.pre)
    /\ self = last.pre

\* C6: insert accepts every distinct tuple.  An insert_grant call succeeds
\* whenever no grant with the identical (owner, grantee, data_id,
\* locked_until) tuple is stored, also when a stored tuple differs only in
\* how the same characters are split between data_id and locked_until.
C6_InsertAcceptsDistinct ==
    (/\ last.op = "insert_grant"
     /\ Grant(ArgCaller, ArgGrantee, ArgDataId, unwrap_or(last.locked_until, 0))
            \notin StoredGrants(last.pre))
    => /\ last.result = Ok
       /\ StoredGrants(self) = StoredGrants(last.pre) \cup
            {Grant(ArgCaller, ArgGrantee, ArgDataId,
                   unwrap_or(last.locked_until, 0))}

\* The finished call is a find_grants or grants_for query.
IsQuery == last.op \in {"find_grants", "grants_for"}

\* The stored grants of reg that equal every supplied criterion.
Matches(reg, owner, grantee, data_id) ==
    {grant \in StoredGrants(reg) :
        /\ is_some(owner) => grant.owner = unwrap(owner)
        /\ is_some(grantee) => grant.grantee = unwrap(grantee)
        /\ is_some(data_id) => grant.data_id = unwrap(data_id)}

\* The set of elements of a sequence.
Range(seq) == {seq[i] : i \in 1..Len(seq)}

\* C7: query correctness.  With owner or grantee supplied, find_grants
\* returns exactly the stored grants that equal every supplied criterion,
\* each of them once, and nothing else.
C7_QueryCorrect ==
    (IsQuery /\ (is_some(last.owner) \/ is_some(last.grantee)))
    => /\ last.result = Ok
       /\ Range(last.ret) = Matches(self, last.owner, last.grantee,
                                    last.data_id)
       /\ Len(last.ret) = Cardinality(Range(last.ret))

\* A query by owner, grantee and data_id returned one of two stored grants
\* of that owner and grantee.
C7_Witness ==
    /\ last.op = "find_grants"
    /\ is_some(last.owner) /\ is_some(last.grantee) /\ is_some(last.data_id)
    /\ Len(last.ret) = 1
    /\ Cardinality(Matches(self, last.owner, last.grantee, None)) = 2

\* C8: query argument rule.  find_grants fails with the invalid-arguments
\* condition exactly when owner and grantee are both absent, with or without
\* data_id; otherwise it succeeds, with the empty list when nothing matches.
C8_QueryArguments ==
    IsQuery =>
        IF last.owner = None /\ last.grantee = None
        THEN last.result = ErrInvalidQuery
        ELSE /\ last.result = Ok
             /\ Matches(self, last.owner, last.grantee, last.data_id) = {}
                    => last.ret = <<>>

\* A query by data_id alone failed although a grant with that data_id was
\* stored.
C8_Witness ==
    /\ last.op = "find_grants"
    /\ last.owner = None /\ last.grantee = None /\ is_some(last.data_id)
    /\ last.result = ErrInvalidQuery
    /\ Matches(self, None, None, last.data_id) # {}

\* A query by an owner that no index has seen returned the empty list.
C8_WitnessUnseenKey ==
    /\ last.op = "find_grants"
    /\ is_some(last.owner)
    /\ unwrap(last.owner) \notin DOMAIN grant_ids_by_owner
    /\ last.result = Ok
    /\ last.ret = <<>>
    /\ grants_by_id # EmptyMap

\* C9: delete with a specific lock value.  A successful delete_grant with a
\* nonzero locked_until L removes exactly the caller's grants for (grantee,
\* data_id) whose locked_until is L; the caller's other grants for (grantee,
\* data_id) stay stored and queryable; and the call fails only if the grant
\* with lock L is itself still locked.
C9_DeleteSpecificLock ==
    (/\ last.op = "delete_grant"
     /\ last.locked_until \notin {None, Some(0)})
    => LET L == unwrap(last.locked_until)
           target == Grant(ArgCaller, ArgGrantee, ArgDataId, L)
       IN  /\ last.result \in {Ok, ErrTimelocked}
           /\ last.result = ErrTimelocked
                => (target \in StoredGrants(last.pre) /\ L >= block_timestamp)
           /\ last.result = Ok
                => /\ StoredGrants(self) = StoredGrants(last.pre) \ {target}
                   /\ grants_by_id =
                        [id \in DOMAIN grants_by_id |-> last.pre.grants_by_id[id]]
                   /\ GrantsOf(self, ArgCaller, ArgGrantee, ArgDataId)
                        = Range(find_grants(self, last.caller, last.grantee,
                                            last.data_id).ret)

\* A delete_grant with locked_until 1 removed the grant locked until 1 and
\* left the caller's grant for the same grantee and data_id that is locked
\* until 10, which is still locked.
C9_Witness ==
    /\ last.op = "delete_grant"
    /\ last.locked_until = Some(1)
    /\ last.result = Ok
    /\ Grant(ArgCaller, ArgGrantee, ArgDataId, 1) \in StoredGrants(last.pre)
    /\ StoredGrants(self) = {Grant(ArgCaller, ArgGrantee, ArgDataId, 10)}
    /\ block_timestamp <= 10

\* C10: delete with no lock value.  A successful delete_grant with
\* locked_until omitted or 0 removes every grant of the caller for
\* (grantee, data_id), whatever its locked_until, so that find_grants for
\* (caller, grantee, data_id) returns the empty list right afterwards.
C10_DeleteNoLock ==
    (/\ last.op = "delete_grant"
     /\ last.locked_until \in {None, Some(0)}
     /\ last.result = Ok)
    => /\ GrantsOf(self, ArgCaller, ArgGrantee, ArgDataId) = {}
       /\ find_grants(self, last.caller, last.grantee, last.data_id)
            = [result |-> Ok, ret |-> <<>>]

\* A delete_grant with locked_until 0 removed two grants of the caller for
\* one (grantee, data_id), locked until 0 and until 1.
C10_Witness ==
    /\ last.op = "delete_grant"
    /\ last.locked_until = Some(0)
    /\ last.result = Ok
    /\ GrantsOf(last.pre, ArgCaller, ArgGrantee, ArgDataId)
        = {Grant(ArgCaller, ArgGrantee, ArgDataId, 0),
           Grant(ArgCaller, ArgGrantee, ArgDataId, 1)}
    /\ GrantsOf(self, ArgCaller, ArgGrantee, ArgDataId) = {}

\* A delete_grant call by the owner of grant, for its grantee and data_id
\* and with the argument locked_until, succeeds now and removes grant.
DeleteRemoves(grant, locked_until) ==
    LET outcome == delete_grant(self, grant.owner, grant.grantee,
                                grant.data_id, locked_until, block_timestamp)
    IN  /\ outcome.result = Ok
        /\ derive_grant_id(grant)
            \notin DOMAIN Commit(self, outcome).reg.grants_by_id

\* grant is returned by the query for its owner, grantee and data_id.
Queryable(reg, grant) ==
    LET found == find_grants(reg, Some(grant.owner), Some(grant.grantee),
                             Some(grant.data_id))
    IN  found.result = Ok /\ grant \in Range(found.ret)

\* A grant is removed only by a delete_grant call of its owner for its
\* grantee and data_id.
RemovedByOwnerOnly ==
    \A id \in Removed :
        /\ last.op = "delete_grant"
        /\ last.pre.grants_by_id[id].owner = ArgCaller
        /\ last.pre.grants_by_id[id].grantee = ArgGrantee
        /\ last.pre.grants_by_id[id].data_id = ArgDataId

\* C11 as stated: expired grants are deletable.  For every stored grant
\* whose locked_until is strictly less than the current time there is a
\* delete_grant call by its owner, for its grantee and data_id and some
\* locked_until argument, that succeeds now and removes it, whatever other
\* grants are stored; until then the grant stays queryable.
C11_ExpiredDeletable ==
    /\ RemovedByOwnerOnly
    /\ \A grant \in StoredGrants(self) :
        grant.locked_until < block_timestamp
        => /\ Queryable(self, grant)
           /\ \E locked_until \in Option(LockValues) :
                DeleteRemoves(grant, locked_until)

\* C11 restricted to where the code provides it: the same for every expired
\* grant that has a nonzero locked_until or that shares its (owner, grantee,
\* data_id) with no grant still locked at the current time.
C11_ExpiredDeletableAlone ==
    /\ RemovedByOwnerOnly
    /\ \A grant \in StoredGrants(self) :
        (/\ grant.locked_until < block_timestamp
         /\ \/ grant.locked_until # 0
            \/ \A other \in GrantsOf(self, grant.owner, grant.grantee,
                                     grant.data_id) :
                    other.locked_until < block_timestamp)
        => /\ Queryable(self, grant)
           /\ \E locked_until \in Option(LockValues) :
                DeleteRemoves(grant, locked_until)

\* A delete_grant with locked_until omitted removed an expired grant with
\* locked_until 0 while the owner's grant for another data_id, locked
\* until 10, stayed.
C11_Witness ==
    /\ last.op = "delete_grant"
    /\ last.locked_until = None
    /\ last.result = Ok
    /\ \E id \in Removed : last.pre.grants_by_id[id].locked_until = 0
    /\ \E grant \in StoredGrants(self) :
        /\ grant.owner = ArgCaller
        /\ grant.data_id # ArgDataId
        /\ grant.locked_until = 10

\* The log line that the formulas expect from a call.
Notification(name) ==
    [standard |-> "FractalRegistry", version |-> "0", event |-> name,
     data |-> [owner |-> ArgCaller, grantee |-> ArgGrantee,
               data_id |-> ArgDataId,
               locked_until |-> IF last.locked_until = None THEN 0
                                ELSE unwrap(last.locked_until)]]

\* C12: notifications.  A successful insert_grant leaves exactly one
\* grant_inserted notification and a successful delete_grant exactly one
\* grant_deleted notification, however many grants it deleted, carrying the
\* caller as owner, the grantee and data_id arguments and locked_until
\* resolved to 0 when omitted; a failed call leaves none.
C12_Notifications ==
    /\ last.op = "insert_grant" =>
        last.logs = IF last.result = Ok
                    THEN <<Notification("grant_inserted")>> ELSE <<>>
    /\ last.op = "delete_grant" =>
        last.logs = IF last.result = Ok
                    THEN <<Notification("grant_deleted")>> ELSE <<>>
    /\ last.op \notin {"insert_grant", "delete_grant"} => last.logs = <<>>

\* A delete_grant with locked_until omitted removed two grants and left one
\* grant_deleted notification with locked_until 0.
C12_Witness ==
    /\ last.op = "delete_grant"
    /\ last.locked_until = None
    /\ last.result = Ok
    /\ Cardinality(Removed) = 2
    /\ Len(last.logs) = 1
    /\ last.logs[1].event = "grant_deleted"
    /\ last.logs[1].data.locked_until = 0

\* C13: delete of nothing succeeds.  A delete_grant call whose filtered
\* candidate set is empty completes without error, leaves its grant_deleted
\* notification and leaves the primary store and the three indices
\* unchanged.
C13_DeleteNothing ==
    (/\ last.op = "delete_grant"
     /\ CandidateSet(last.pre, ArgCaller, ArgGrantee, ArgDataId,
                     last.locked_until) = {})
    => /\ last.result = Ok
       /\ Len(last.logs) = 1
       /\ last.logs[1].event = "grant_deleted"
       /\ self = last.pre

\* A delete_grant with locked_until 1 found the caller's grant for the
\* grantee and data_id, locked until 10, but none locked until 1.
C13_Witness ==
    /\ last.op = "delete_grant"
    /\ last.locked_until = Some(1)
    /\ last.result = Ok
    /\ GrantsOf(last.pre, ArgCaller, ArgGrantee, ArgDataId)
        = {Grant(ArgCaller, ArgGrantee, ArgDataId, 10)}
    /\ self = last.pre

\* The identifiers held in the lists of an index map.
Listed(map) == UNION {Range(map[k]) : k \in DOMAIN map}

\* C14: no dangling identifiers.  Every identifier in a by-owner, by-grantee
\* or by-data_id list is a key of the primary store, so the primary-store
\* lookup of find_grants never fails.
C14_NoDangling ==
    /\ Listed(grant_ids_by_owner) \subseteq DOMAIN grants_by_id
    /\ Listed(grant_ids_by_grantee) \subseteq DOMAIN grants_by_id
    /\ Listed(grant_ids_by_data_id) \subseteq DOMAIN grants_by_id
    /\ last.result # ErrUnwrap

\* A delete_grant emptied the primary store and left the index keys with
\* empty lists.
C14_Witness ==
    /\ last.op = "delete_grant"
    /\ last.result = Ok
    /\ Removed # {}
    /\ grants_by_id = EmptyMap
    /\ grant_ids_by_owner # EmptyMap
    /\ Listed(grant_ids_by_owner) = {}

\* C15: zero means no lock.  A delete_grant call whose candidates all have
\* locked_until 0 never fails as time-locked: it succeeds at every value of
\* the current time, the smallest included.
C15_ZeroNoLock ==
    (/\ last.op = "delete_grant"
     /\ \A grant \in CandidateSet(last.pre, ArgCaller, ArgGrantee, ArgDataId,
                                  last.locked_until) :
            grant.locked_until = 0)
    => last.result = Ok

\* C15 restricted to where the code provides it: the same at every current
\* time greater than 0.
C15_ZeroNoLockAfterZero ==
    (/\ last.op = "delete_grant"
     /\ block_timestamp > 0
     /\ \A grant \in CandidateSet(last.pre, ArgCaller, ArgGrantee, ArgDataId,
                                  last.locked_until) :
            grant.locked_until = 0)
    => last.result = Ok

\* C16: identity and immutability.  Every key of the primary store is the
\* derived identifier of the record stored under it, and no call changes
\* the record stored under an identifier that it leaves in the store.
C16_IdentityImmutable ==
    \A id \in DOMAIN grants_by_id :
        /\ derive_grant_id(grants_by_id[id]) = id
        /\ id \in DOMAIN last.pre.grants_by_id
            => grants_by_id[id] = last.pre.grants_by_id[id]

\* An insert_grant of a tuple that is not stored but derives a stored
\* identifier was rejected and the stored record is the old one.
C16_Witness ==
    /\ last.op = "insert_grant"
    /\ last.result = ErrDuplicate
    /\ LET grant == Grant(ArgCaller, ArgGrantee, ArgDataId,
                          unwrap_or(last.locked_until, 0))
       IN  /\ grant \notin StoredGrants(self)
           /\ derive_grant_id(grant) \in DOMAIN grants_by_id

\* map is before with id appended to the list under key, which is created
\* when missing; the lists under the other keys are those of before.
AppendedUnder(before, map, key, id) ==
    /\ DOMAIN map = DOMAIN before \cup {key}
    /\ \A k \in DOMAIN map :
        IF k = key
        THEN /\ Len(map[k]) = Len(GetOrDefault(before, k)) + 1
             /\ map[k][Len(map[k])] = id
             /\ \A i \in 1..(Len(map[k]) - 1) : map[k][i] = before[k][i]
        ELSE map[k] = before[k]

\* C17: insert frame.  A successful insert_grant adds exactly one entry to
\* the primary store and appends its identifier at the end of the caller's
\* by-owner list, the grantee's by-grantee list and the data_id's by-data_id
\* list; the other entries and lists are unchanged and the elements of the
\* three lists keep their positions.
C17_InsertFrame ==
    (last.op = "insert_grant" /\ last.result = Ok)
    => LET grant == Grant(ArgCaller, ArgGrantee, ArgDataId,
                          unwrap_or(last.locked_until, 0))
           added == DOMAIN grants_by_id \ DOMAIN last.pre.grants_by_id
       IN  /\ Cardinality(added) = 1
           /\ DOMAIN last.pre.grants_by_id \subseteq DOMAIN grants_by_id
           /\ \A id \in DOMAIN last.pre.grants_by_id :
                grants_by_id[id] = last.pre.grants_by_id[id]
           /\ \A id \in added :
                /\ grants_by_id[id] = grant
                /\ AppendedUnder(last.pre.grant_ids_by_owner,
                                 grant_ids_by_owner, ArgCaller, id)
                /\ AppendedUnder(last.pre.grant_ids_by_grantee,
                                 grant_ids_by_grantee, ArgGrantee, id)
                /\ AppendedUnder(last.pre.grant_ids_by_data_id,
                                 grant_ids_by_data_id, ArgDataId, id)

\* An insert_grant appended to the caller's by-owner list behind an older
\* identifier and created the by-grantee list of a new grantee.
C17_Witness ==
    /\ last.op = "insert_grant"
    /\ last.result = Ok
    /\ Len(grant_ids_by_owner[ArgCaller]) = 2
    /\ ArgGrantee \notin DOMAIN last.pre.grant_ids_by_grantee
    /\ Len(grant_ids_by_grantee[ArgGrantee]) = 1

\* A sequence holds no element twice.
NoDuplicates(seq) == Len(seq) = Cardinality(Range(seq))

\* No list of an index map holds an identifier twice.
DuplicateFree(map) == \A k \in DOMAIN map : NoDuplicates(map[k])

\* Every list of map is as long as the list of before under the same key,
\* less the identifiers of gone that the list of before holds.
ShrunkBy(before, map, gone) ==
    \A k \in DOMAIN before :
        Len(map[k]) = Len(before[k]) - Cardinality(gone \cap Range(before[k]))

\* C18: no duplicates in indices.  No by-owner, by-grantee or by-data_id
\* list holds an identifier more than once, so a delete_grant shortens a
\* list by exactly one element for each identifier it removes from it.
C18_NoDuplicates ==
    /\ DuplicateFree(grant_ids_by_owner)
    /\ DuplicateFree(grant_ids_by_grantee)
    /\ DuplicateFree(grant_ids_by_data_id)
    /\ last.op = "delete_grant" =>
        /\ ShrunkBy(last.pre.grant_ids_by_owner, grant_ids_by_owner, Removed)
        /\ ShrunkBy(last.pre.grant_ids_by_grantee, grant_ids_by_grantee,
                    Removed)
        /\ ShrunkBy(last.pre.grant_ids_by_data_id, grant_ids_by_data_id,
                    Removed)

\* A delete_grant removed one of the two identifiers of the caller's
\* by-owner list.
C18_Witness ==
    /\ last.op = "delete_grant"
    /\ last.result = Ok
    /\ Cardinality(Removed) = 1
    /\ Len(last.pre.grant_ids_by_owner[ArgCaller]) = 2
    /\ Len(grant_ids_by_owner[ArgCaller]) = 1

\* The index list of the first supplied criterion of a query.
FirstList(reg, owner, grantee) ==
    IF is_some(owner) THEN GetOrDefault(reg.grant_ids_by_owner, unwrap(owner))
    ELSE GetOrDefault(reg.grant_ids_by_grantee, unwrap(grantee))

\* Every list of map is the list of before without the identifiers of gone,
\* the others in their old order.
OrderKept(before, map, gone) ==
    \A k \in DOMAIN before :
        map[k] = SelectSeq(before[k], LAMBDA id : id \notin gone)

InsertRestores(grant) ==
    LET outcome == insert_grant(self, grant.owner, grant.grantee,
                                grant.data_id, Some(grant.locked_until))
        after == Commit(self, outcome).reg
    IN  /\ outcome.result = Ok
        /\ grant \in StoredGrants(after)
        /\ Queryable(after, grant)

\* C20: delete frees the identity.  After a successful delete_grant, an
\* insert_grant of the (grantee, data_id, locked_until) of a grant that the
\* call had to remove, by the same owner, succeeds instead of failing as a
\* duplicate, and the grant is returned by queries again.
C20_DeleteFreesIdentity ==
    (last.op = "delete_grant" /\ last.result = Ok)
    => \A grant \in CandidateSet(last.pre, ArgCaller, ArgGrantee, ArgDataId,
                                 last.locked_until) :
            /\ ~Queryable(self, grant)
            /\ InsertRestores(grant)

\* A delete_grant with locked_until 0 removed the caller's only grant, which
\* had locked_until 1, while another owner's grant stayed.
C20_Witness ==
    /\ last.op = "delete_grant"
    /\ last.locked_until = Some(0)
    /\ last.result = Ok
    /\ \E id \in Removed : last.pre.grants_by_id[id].locked_until = 1
    /\ Cardinality(Removed) = 1
    /\ \E grant \in StoredGrants(self) : grant.owner # ArgCaller

\* The three index maps of reg hold an entry for the keys of grant.
KeysExist(reg, grant) ==
    /\ grant.owner \in DOMAIN reg.grant_ids_by_owner
    /\ grant.grantee \in DOMAIN reg.grant_ids_by_grantee
    /\ grant.data_id \in DOMAIN reg.grant_ids_by_data_id

\* C21: index removal never hits a missing key.  For every candidate of a
\* delete_grant call the caller's entry of the by-owner index, the grantee
\* argument's entry of the by-grantee index and the data_id argument's entry
\* of the by-data_id index exist, before the call and after it, so that the
\* index remove step never aborts the call.
C21_RemoveFindsKey ==
    /\ \A grant \in StoredGrants(self) : KeysExist(self, grant)
    /\ last.op = "delete_grant" =>
        /\ last.result # ErrUnwrap
        /\ \A grant \in CandidateSet(last.pre, ArgCaller, ArgGrantee,
                                     ArgDataId, last.locked_until) :
            /\ KeysExist(last.pre, grant)
            /\ KeysExist(self, grant)

\* A delete_grant removed two candidates in one call and left the three
\* entries of its arguments with empty lists.
C21_Witness ==
    /\ last.op = "delete_grant"
    /\ last.result = Ok
    /\ Cardinality(Removed) = 2
    /\ InList(last.pre.grant_ids_by_owner, ArgCaller,
              CHOOSE id \in Removed : TRUE)
    /\ grant_ids_by_owner[ArgCaller] = <<>>
    /\ grant_ids_by_grantee[ArgGrantee] = <<>>
    /\ grant_ids_by_data_id[ArgDataId] = <<>>

====
